---- MODULE Spec2Model ----
(***************************************************************************)
(* A model of src/bad.py, the csv -> SQL Server table importer.            *)
(*                                                                         *)
(* Python strings are sequences of one-character strings, so that slicing, *)
(* str.lower, str.isdigit, str.replace and datetime.strptime are computed  *)
(* and not assumed.  None is the one-element sequence <<"None">>, which is *)
(* no Python string of the model (its element is not one character).       *)
(*                                                                         *)
(* The destination table is the committed contents of dbo.<desttbl>; txn   *)
(* holds the inserts executed on the connection and not yet committed      *)
(* (pyodbc connections are opened with autocommit off, and a process that  *)
(* ends without commit loses them).                                        *)
(*                                                                         *)
(* Lines 263-264 of bad.py (destuser=jabran, destpass=pass) are read as    *)
(* what they stand for, hard-coded credentials that replace the arguments. *)
(***************************************************************************)
EXTENDS Integers, Sequences, FiniteSets, TLC

VARIABLES
    pc,          \* position of the process in main / copy_data_from_csv_to_sql_server_table
    args,        \* main: the parsed arguments
    date,        \* main: date
    loc,         \* copy_data_from_csv_to_sql_server_table: its parameters and locals
    readers,     \* the list read_csv returned (write_records_to_db pops its header)
    counter,     \* write_records_to_db: counter
    pos,         \* write_records_to_db: index of the next element of the for loop
    conn,        \* the pyodbc connection
    txn,         \* rows inserted on conn and not committed
    table,       \* committed rows of the destination table
    exitStatus,  \* exit status of the process, -1 while it runs
    exitAt,      \* where the process ended
    runs,        \* number of invocations so far
    table0,      \* history: table when the current invocation started
    deleted,     \* history: the delete of this invocation was committed
    executed,    \* history: inserts executed by this invocation
    summary,     \* history: what the invocation that ended last did
    prev,        \* history: summary of the invocation before the current one
    fnIn,        \* argument of the function under test (function specifications)
    fnOut        \* its result

vars == <<pc, args, date, loc, readers, counter, pos, conn, txn, table,
          exitStatus, exitAt, runs, table0, deleted, executed, summary, prev,
          fnIn, fnOut>>

(***************************************************************************)
(* Bounds                                                                  *)
(***************************************************************************)
\* invocations of the program in one behaviour
MaxRuns == 2
\* longest header label and longest header of the create_header_col_list inputs
MaxLabelLen == 3
MaxHeaderLen == 2

(***************************************************************************)
(* Python values                                                           *)
(***************************************************************************)
None == <<"None">>

Digits == {"0", "1", "2", "3", "4", "5", "6", "7", "8", "9"}

DigitVal(c) ==
    CASE c = "0" -> 0 [] c = "1" -> 1 [] c = "2" -> 2 [] c = "3" -> 3
      [] c = "4" -> 4 [] c = "5" -> 5 [] c = "6" -> 6 [] c = "7" -> 7
      [] c = "8" -> 8 [] c = "9" -> 9

\* str.isdigit: non-empty and every character a digit
isdigit(s) == Len(s) > 0 /\ \A i \in 1..Len(s) : s[i] \in Digits

\* int() of a digit string
RECURSIVE IntOf(_)
IntOf(s) == IF Len(s) = 0 THEN 0
            ELSE 10 * IntOf(SubSeq(s, 1, Len(s) - 1)) + DigitVal(s[Len(s)])

LowerChar(c) ==
    CASE c = "A" -> "a" [] c = "B" -> "b" [] c = "D" -> "d" [] c = "E" -> "e"
      [] c = "F" -> "f" [] c = "L" -> "l" [] c = "S" -> "s" [] c = "T" -> "t"
      [] c = "U" -> "u" [] c = "Y" -> "y" [] OTHER -> c

\* str.lower
lower(s) == [i \in 1..Len(s) |-> LowerChar(s[i])]

\* s.replace(old, ""): leftmost non-overlapping occurrences of old removed
RECURSIVE replace(_, _)
replace(s, old) ==
    IF Len(s) < Len(old) THEN s
    ELSE IF SubSeq(s, 1, Len(old)) = old
         THEN replace(SubSeq(s, Len(old) + 1, Len(s)), old)
         ELSE <<s[1]>> \o replace(Tail(s), old)

IsLeap(y) == (y % 4 = 0 /\ y % 100 # 0) \/ y % 400 = 0

DaysInMonth(y, m) ==
    IF m = 2 THEN (IF IsLeap(y) THEN 29 ELSE 28)
    ELSE IF m \in {4, 6, 9, 11} THEN 30 ELSE 31

\* datetime.strptime(s, '%Y-%m-%d') does not raise ValueError: four digits of
\* year, one or two of month and of day, and a date of the calendar
strptime(s) ==
    \E ml \in {1, 2}, dl \in {1, 2} :
        /\ Len(s) = 6 + ml + dl
        /\ isdigit(SubSeq(s, 1, 4))
        /\ s[5] = "-"
        /\ isdigit(SubSeq(s, 6, 5 + ml))
        /\ s[6 + ml] = "-"
        /\ isdigit(SubSeq(s, 7 + ml, 6 + ml + dl))
        /\ LET y == IntOf(SubSeq(s, 1, 4))
               m == IntOf(SubSeq(s, 6, 5 + ml))
               d == IntOf(SubSeq(s, 7 + ml, 6 + ml + dl))
           IN  /\ y >= 1
               /\ m \in 1..12
               /\ (ml = 2 \/ s[6] # "0")
               /\ d \in 1..DaysInMonth(y, m)
               /\ (dl = 2 \/ s[7 + ml] # "0")

(***************************************************************************)
(* The pure functions of bad.py                                            *)
(***************************************************************************)
\* number of trailing characters of the file name that start with the date
\* ("YYYYMMDD19.csv"), and the length of the date in it
DateTailLen == 14
DateLen == 8

\* extract_date_from_filename: "return" with the value returned, "sys.exit"
\* for the ValueError handler, and "UnboundLocalError" when line 176 reads
\* extracoldata, which no branch assigned
extract_date_from_filename(sourcefilepath) ==
    IF Len(sourcefilepath) > DateTailLen
    THEN LET tail == SubSeq(sourcefilepath, Len(sourcefilepath) - DateTailLen + 1,
                            Len(sourcefilepath))
             d == SubSeq(tail, 1, DateLen)
         IN  IF isdigit(d)
             THEN LET extracoldata == SubSeq(d, 1, 4) \o <<"-">> \o SubSeq(d, 5, 6)
                                        \o <<"-">> \o SubSeq(d, 7, Len(d))
                  IN  IF strptime(extracoldata)
                      THEN [kind |-> "return", value |-> extracoldata]
                      ELSE [kind |-> "sys.exit", value |-> None]
             ELSE [kind |-> "UnboundLocalError", value |-> None]
    ELSE [kind |-> "UnboundLocalError", value |-> None]

\* create_header_col_list
create_header_col_list(header, extracol) ==
    Append([i \in 1..Len(header) |->
               replace(replace(replace(header[i], <<"/", "/">>), <<"-">>), <<" ">>)],
           extracol)

\* generate_insert_query: 'insert into dbo.<desttbl>(<columns>) values (?,...)'
generate_insert_query(desttbl, columns) ==
    [into |-> desttbl, columns |-> columns, params |-> Len(columns)]

\* generate_delete_query with the column name where the date belongs
generate_delete_query_noDate(desttbl, extracol, extracoldata) ==
    [from |-> desttbl, col |-> extracol, val |-> extracol]

\* generate_delete_query: "delete from dbo.<desttbl> where <extracol> = '<extracoldata>'"
generate_delete_query(desttbl, extracol, extracoldata) ==
    [from |-> desttbl, col |-> extracol, val |-> extracoldata]

S_daily == <<"d", "a", "i", "l", "y">>
S_full == <<"f", "u", "l", "l">>
S_yes == <<"y", "e", "s">>

\* validate_inputs: "ok" when it returns, "sys.exit" for its sys.exit(1) calls,
\* "ValueError" for the exception it re-raises
validate_inputs(a) ==
    IF \E v \in {a.importtype, a.destinst, a.destdb, a.desttbl, a.sourcefilepath} : v = None
    THEN "sys.exit"
    ELSE IF a.trustedconnection # None /\ lower(a.trustedconnection) # S_yes
            /\ (a.destuser = None \/ a.destpass = None)
    THEN "sys.exit"
    ELSE IF a.extracoldata = None /\ lower(a.importtype) = S_full
    THEN "sys.exit"
    ELSE IF lower(a.importtype) = S_full /\ a.extracoldata # None
            /\ ~strptime(a.extracoldata)
    THEN "ValueError"
    ELSE "ok"

(***************************************************************************)
(* The environment: the files on disk and the destination table            *)
(***************************************************************************)
ExtraCol == <<"D", "i", "f", "f", "D", "a", "t", "e", "T", "i", "m", "e">>

D1 == <<"2", "0", "2", "1", "-", "0", "7", "-", "0", "7">>
D2 == <<"2", "0", "2", "1", "-", "0", "7", "-", "0", "8">>

\* columns of the destination table; the partition column is the last
TableColumns == <<<<"I", "d">>, <<"P", "x">>, ExtraCol>>

File_a == <<"a", "2", "0", "2", "1", "0", "7", "0", "7", "1", "9", ".", "c", "s", "v">>
File_b == <<"b", "2", "0", "2", "1", "0", "7", "0", "8", "1", "9", ".", "c", "s", "v">>
File_full == <<"f", "u", "l", "l", ".", "c", "s", "v">>
File_empty == <<"e", "m", "p", "t", "y", ".", "c", "s", "v">>

FileExists(path) == path \in {File_a, File_b, File_full, File_empty}

\* csv.reader over the file: the header and the data rows
FileContent(path) ==
    CASE path = File_a -> << <<<<"I", "d">>, <<"P", " ", "x">>>>, <<"1", "a">>, <<"2", "b">> >>
      [] path = File_b -> << <<<<"I", "d">>, <<"P", "-", "x">>>>, <<"3", "c">> >>
      [] path = File_full -> << <<<<"I", "d">>, <<"P", "x">>>>, <<"4", "d">> >>
      [] path = File_empty -> <<>>

\* the value of a row in the column named col
RowValue(row, col) ==
    row[CHOOSE i \in 1..Len(TableColumns) : TableColumns[i] = col]

\* the rows a delete statement leaves
ExecuteDelete(rows, q) ==
    SelectSeq(rows, LAMBDA row : RowValue(row, q.col) # q.val)

\* the store accepts the statement: its column is a column of the table
DeleteAccepted(q) == \E i \in 1..Len(TableColumns) : TableColumns[i] = q.col

\* the store accepts the insert: the columns are the table's and one value
\* is bound to each placeholder
InsertAccepted(q, row) == q.columns = TableColumns /\ Len(row) = q.params

InitTables ==
    { <<>>,
      << <<"0", "z", D1>>, <<"9", "y", D2>> >> }

(***************************************************************************)
(* The command lines                                                       *)
(***************************************************************************)
ImportTypes == {None, <<"D", "a", "i", "l", "y">>, <<"F", "u", "l", "l">>, <<"w", "e", "e", "k", "l", "y">>}
Names == {None, <<"T", "1">>}
TrustedValues == {None, <<"y", "e", "s">>, <<"Y", "E", "S">>, <<"n", "o">>}
Users == {None, <<"u">>}
Passwords == {None, <<"p">>}
SourceFilePaths ==
    {None, <<"a", "2", "0", "2", "1", "0", "7", "0", "7", "1", "9", ".", "c", "s", "v">>, <<"B", "2", "0", "2", "1", "0", "7", "0", "8", "1", "9", ".", "c", "s", "v">>, <<"2", "0", "2", "1", "0", "7", "0", "7", "1", "9", ".", "c", "s", "v">>,
     <<"a", "2", "0", "2", "1", "0", "2", "3", "0", "1", "9", ".", "c", "s", "v">>, <<"c", "2", "0", "2", "1", "0", "7", "0", "8", "1", "9", ".", "c", "s", "v">>, <<"f", "u", "l", "l", ".", "c", "s", "v">>,
     <<"e", "m", "p", "t", "y", ".", "c", "s", "v">>}
ExtraColDatas == {None, <<>>, D1, <<"2", "0", "2", "1", "-", "0", "2", "-", "3", "0">>, <<"x">>}

Requests ==
    [importtype : ImportTypes, destinst : Names, destdb : Names,
     trustedconnection : TrustedValues, destuser : Users, destpass : Passwords,
     desttbl : Names, sourcefilepath : SourceFilePaths, extracoldata : ExtraColDatas]

(***************************************************************************)
(* The process                                                             *)
(***************************************************************************)
NoArgs ==
    [importtype |-> None, destinst |-> None, destdb |-> None,
     trustedconnection |-> None, destuser |-> None, destpass |-> None,
     desttbl |-> None, sourcefilepath |-> None, extracoldata |-> None]

NoQuery == [into |-> None, columns |-> <<>>, params |-> 0]

NoLoc ==
    [importtype |-> None, destinst |-> None, trustedconnection |-> None,
     destuser |-> None, destpass |-> None, destdb |-> None, desttbl |-> None,
     sourcefilepath |-> None, extracol |-> None, extracoldata |-> None,
     failed |-> 1, total_recs_in_csv |-> 0, columns |-> <<>>,
     insert_query |-> NoQuery, written |-> 0]

NoConn == [open |-> FALSE, trusted |-> FALSE, user |-> None, password |-> None]

NoSummary ==
    [completed |-> FALSE, importtype |-> None, sourcefilepath |-> None,
     date |-> None, executed |-> 0, nrows |-> 0, failed |-> 1]

Init ==
    /\ pc = "main"
    /\ args = NoArgs
    /\ date = None
    /\ loc = NoLoc
    /\ readers = <<>>
    /\ counter = 0
    /\ pos = 0
    /\ conn = NoConn
    /\ txn = <<>>
    /\ table \in InitTables
    /\ exitStatus = -1
    /\ exitAt = "running"
    /\ runs = 1
    /\ table0 = table
    /\ deleted = FALSE
    /\ executed = 0
    /\ summary = NoSummary
    /\ prev = NoSummary
    /\ fnIn = <<>>
    /\ fnOut = <<>>

\* The process ends with status 1, by sys.exit(1) or by an exception nothing
\* catches: its memory is gone, and so is what its connection did not commit.
Die(at) ==
    /\ pc' = "exit"
    /\ exitStatus' = 1
    /\ exitAt' = at
    /\ args' = NoArgs
    /\ date' = None
    /\ loc' = NoLoc
    /\ readers' = <<>>
    /\ counter' = 0
    /\ pos' = 0
    /\ conn' = NoConn
    /\ txn' = <<>>
    /\ executed' = 0
    /\ summary' = NoSummary

hist == <<runs, table0, prev, fnIn, fnOut>>

\* main, lines 336-339: parse_args and validate_inputs
main_validate_inputs ==
    /\ pc = "main"
    /\ \E a \in Requests :
          LET r == validate_inputs(a)
          IN  IF r = "ok"
              THEN /\ pc' = "validated"
                   /\ args' = a
                   /\ UNCHANGED <<date, loc, readers, counter, pos, conn, txn,
                                  exitStatus, exitAt, executed, summary>>
              ELSE Die(IF r = "sys.exit" THEN "validate_inputs: sys.exit"
                       ELSE "validate_inputs: ValueError")
    /\ UNCHANGED <<table, deleted>>
    /\ UNCHANGED hist

\* main, lines 341-344
main_date ==
    /\ pc = "validated"
    /\ IF lower(args.importtype) = S_daily
       THEN LET r == extract_date_from_filename(args.sourcefilepath)
            IN  IF r.kind = "return"
                THEN /\ date' = r.value
                     /\ pc' = "dated"
                     /\ UNCHANGED <<args, loc, readers, counter, pos, conn, txn,
                                    exitStatus, exitAt, executed, summary>>
                ELSE Die(IF r.kind = "sys.exit"
                         THEN "extract_date_from_filename: sys.exit"
                         ELSE "extract_date_from_filename: UnboundLocalError")
       ELSE /\ date' = args.extracoldata
            /\ pc' = "dated"
            /\ UNCHANGED <<args, loc, readers, counter, pos, conn, txn,
                           exitStatus, exitAt, executed, summary>>
    /\ UNCHANGED <<table, deleted>>
    /\ UNCHANGED hist

\* main, lines 346-358, and copy_data_from_csv_to_sql_server_table, lines
\* 262-264; with date None, line 364 reads failed, which was never assigned
main_call_copy ==
    /\ pc = "dated"
    /\ IF date # None
       THEN /\ loc' = [NoLoc EXCEPT
                          !.importtype = lower(args.importtype),
                          !.destinst = lower(args.destinst),
                          !.trustedconnection = args.trustedconnection,
                          !.destuser = <<"j", "a", "b", "r", "a", "n">>,
                          !.destpass = <<"p", "a", "s", "s">>,
                          !.destdb = lower(args.destdb),
                          !.desttbl = lower(args.desttbl),
                          !.sourcefilepath = lower(args.sourcefilepath),
                          !.extracol = ExtraCol,
                          !.extracoldata = date,
                          !.failed = 1]
            /\ pc' = "copy"
            /\ UNCHANGED <<args, date, readers, counter, pos, conn, txn,
                           exitStatus, exitAt, executed, summary>>
       ELSE Die("main: UnboundLocalError")
    /\ UNCHANGED <<table, deleted>>
    /\ UNCHANGED hist

\* establish_db_connection: the connection string, and pyodbc.connect called
\* in the try block (a failure is logged and ends in sys.exit) and once more
\* on line 197 (a failure there is caught by nothing)
establish_db_connection ==
    /\ pc = "copy"
    /\ \E outcome \in {"ok", "sys.exit", "Error"} :
          IF outcome = "ok"
          THEN /\ conn' = [open |-> TRUE,
                           trusted |-> (loc.trustedconnection = S_yes),
                           user |-> IF loc.trustedconnection = S_yes THEN None
                                    ELSE loc.destuser,
                           password |-> IF loc.trustedconnection = S_yes THEN None
                                        ELSE loc.destpass]
               /\ pc' = "connected"
               /\ UNCHANGED <<args, date, loc, readers, counter, pos, txn,
                              exitStatus, exitAt, executed, summary>>
          ELSE Die(IF outcome = "sys.exit" THEN "establish_db_connection: sys.exit"
                   ELSE "establish_db_connection: Error")
    /\ UNCHANGED <<table, deleted>>
    /\ UNCHANGED hist

\* check_destination_table_existence: the probe, and sys.exit when it fails
check_destination_table_existence ==
    /\ pc = "connected"
    /\ \E ok \in BOOLEAN :
          IF ok
          THEN /\ pc' = "probed"
               /\ UNCHANGED <<args, date, loc, readers, counter, pos, conn, txn,
                              exitStatus, exitAt, executed, summary>>
          ELSE Die("check_destination_table_existence: sys.exit")
    /\ UNCHANGED <<table, deleted>>
    /\ UNCHANGED hist

\* a delete before every import, whatever its type
deletes_first_always(importtype) == TRUE

\* line 267: the import deletes the partition first
deletes_first(importtype) == lower(importtype) = S_daily

\* cursor.execute on a connection that commits every statement
cursor_execute_autocommit(committed, open, row) ==
    [table |-> committed \o Append(open, row), txn |-> <<>>]

\* line 236, cursor.execute(query, reader): the insert joins the open
\* transaction of the connection, and nothing is committed
cursor_execute(committed, open, row) ==
    [table |-> committed, txn |-> Append(open, row)]

\* lines 267-269: generate_delete_query and delete_table_data (execute and
\* commit) of a daily import; an error of the store is caught by nothing
delete_table_data ==
    /\ pc = "probed"
    /\ IF deletes_first(loc.importtype)
       THEN LET delete_query == generate_delete_query(loc.desttbl, loc.extracol,
                                                      loc.extracoldata)
            IN  \E ok \in BOOLEAN :
                   IF ok /\ DeleteAccepted(delete_query)
                   THEN /\ table' = ExecuteDelete(table, delete_query)
                        /\ deleted' = TRUE
                        /\ pc' = "cleared"
                        /\ UNCHANGED <<args, date, loc, readers, counter, pos, conn,
                                       txn, exitStatus, exitAt, executed, summary>>
                   ELSE /\ Die("delete_table_data: Error")
                        /\ UNCHANGED <<table, deleted>>
       ELSE /\ pc' = "cleared"
            /\ UNCHANGED <<args, date, loc, readers, counter, pos, conn, txn,
                           exitStatus, exitAt, executed, summary, table, deleted>>
    /\ UNCHANGED hist

\* lines 270-273: read_csv, len, create_header_col_list (readers[0] of an
\* empty file raises IndexError) and generate_insert_query
read_csv ==
    /\ pc = "cleared"
    /\ IF ~FileExists(loc.sourcefilepath)
       THEN Die("read_csv: FileNotFoundError")
       ELSE LET rs == FileContent(loc.sourcefilepath)
            IN  IF Len(rs) = 0
                THEN Die("copy: IndexError")
                ELSE LET columns == create_header_col_list(rs[1], loc.extracol)
                     IN  /\ readers' = rs
                         /\ loc' = [loc EXCEPT
                                       !.total_recs_in_csv = Len(rs),
                                       !.columns = columns,
                                       !.insert_query =
                                           generate_insert_query(loc.desttbl, columns)]
                         /\ pc' = "loaded"
                         /\ UNCHANGED <<args, date, counter, pos, conn, txn,
                                        exitStatus, exitAt, executed, summary>>
    /\ UNCHANGED <<table, deleted>>
    /\ UNCHANGED hist

\* write_records_to_db, lines 230-232
write_records_begin ==
    /\ pc = "loaded"
    /\ readers' = Tail(readers)
    /\ counter' = 1
    /\ pos' = 1
    /\ pc' = "writing"
    /\ UNCHANGED <<args, date, loc, conn, txn, exitStatus, exitAt, executed, summary>>
    /\ UNCHANGED <<table, deleted>>
    /\ UNCHANGED hist

\* write_records_to_db, lines 233-240: one turn of the for loop; an error of
\* cursor.execute is caught by nothing
write_record ==
    /\ pc = "writing"
    /\ pos <= Len(readers)
    /\ IF loc.extracoldata # <<>>
       THEN LET reader == Append(readers[pos], loc.extracoldata)
            IN  \E ok \in BOOLEAN :
                   IF ok /\ InsertAccepted(loc.insert_query, reader)
                   THEN /\ readers' = [readers EXCEPT ![pos] = reader]
                        /\ table' = cursor_execute(table, txn, reader).table
                        /\ txn' = cursor_execute(table, txn, reader).txn
                        /\ executed' = executed + 1
                        /\ counter' = counter + 1
                        /\ pos' = pos + 1
                        /\ UNCHANGED <<pc, args, date, loc, conn, exitStatus, exitAt,
                                       summary>>
                   ELSE /\ Die("write_records_to_db: execute Error")
                        /\ UNCHANGED table
       ELSE /\ counter' = counter + 1
            /\ pos' = pos + 1
            /\ UNCHANGED <<pc, args, date, loc, readers, conn, txn, exitStatus,
                           exitAt, executed, summary, table>>
    /\ UNCHANGED deleted
    /\ UNCHANGED hist

\* write_records_to_db, lines 241-244: the commit after the loop, and the
\* value returned, which line 274 assigns to written
write_records_commit ==
    /\ pc = "writing"
    /\ pos > Len(readers)
    /\ \E ok \in BOOLEAN :
          IF ok
          THEN /\ table' = table \o txn
               /\ txn' = <<>>
               /\ loc' = [loc EXCEPT !.written = counter]
               /\ pc' = "written"
               /\ UNCHANGED <<args, date, readers, counter, pos, conn, exitStatus,
                              exitAt, executed, summary>>
          ELSE /\ Die("write_records_to_db: commit Error")
               /\ UNCHANGED table
    /\ UNCHANGED deleted
    /\ UNCHANGED hist

\* copy_data_from_csv_to_sql_server_table, lines 275-278
copy_return ==
    /\ pc = "written"
    /\ loc' = [loc EXCEPT !.failed = IF loc.total_recs_in_csv = loc.written
                                     THEN 0 ELSE loc.failed]
    /\ pc' = "returned"
    /\ UNCHANGED <<args, date, readers, counter, pos, conn, txn, exitStatus, exitAt,
                   executed, summary>>
    /\ UNCHANGED <<table, deleted>>
    /\ UNCHANGED hist

\* main, lines 360-364, and line 368, which drops the value main returns:
\* the interpreter ends with status 0
main_return ==
    /\ pc = "returned"
    /\ pc' = "exit"
    /\ exitStatus' = 0
    /\ exitAt' = "main: return"
    /\ summary' = [completed |-> TRUE, importtype |-> loc.importtype,
                   sourcefilepath |-> args.sourcefilepath, date |-> date,
                   executed |-> executed, nrows |-> loc.total_recs_in_csv - 1,
                   failed |-> loc.failed]
    /\ args' = NoArgs
    /\ date' = None
    /\ loc' = NoLoc
    /\ readers' = <<>>
    /\ counter' = 0
    /\ pos' = 0
    /\ conn' = NoConn
    /\ txn' = <<>>
    /\ executed' = 0
    /\ UNCHANGED <<table, deleted>>
    /\ UNCHANGED hist

\* the program is invoked again, on the table the last invocation left
invoke_again ==
    /\ pc = "exit"
    /\ runs < MaxRuns
    /\ pc' = "main"
    /\ exitStatus' = -1
    /\ exitAt' = "running"
    /\ runs' = runs + 1
    /\ table0' = table
    /\ deleted' = FALSE
    /\ prev' = summary
    /\ summary' = NoSummary
    /\ UNCHANGED <<args, date, loc, readers, counter, pos, conn, txn, table, executed,
                   fnIn, fnOut>>

Next ==
    \/ main_validate_inputs
    \/ main_date
    \/ main_call_copy
    \/ establish_db_connection
    \/ check_destination_table_existence
    \/ delete_table_data
    \/ read_csv
    \/ write_records_begin
    \/ write_record
    \/ write_records_commit
    \/ copy_return
    \/ main_return
    \/ invoke_again

Spec == Init /\ [][Next]_vars

(***************************************************************************)
(* extract_date_from_filename on its own                                   *)
(***************************************************************************)
NamePrefixes == {<<>>, <<"a">>, <<"a", "b">>}
NameDates ==
    {<<"2", "0", "2", "1", "0", "7", "0", "7">>, <<"2", "0", "2", "1", "0", "2", "3", "0">>, <<"2", "0", "2", "0", "0", "2", "2", "9">>, <<"2", "0", "2", "1", "0", "2", "2", "9">>, <<"2", "0", "2", "1", "0", "7", "0", "a">>, <<"0", "0", "0", "0", "0", "1", "0", "1">>,
     <<"2", "0", "2", "1", "1", "3", "0", "1">>, <<"2", "0", "2", "1", "0", "7", "0", "0">>, <<"a", "b", "c", "d", "e", "f", "g", "h">>, <<"2", "0", "2", "1", "1", "2", "3", "1">>}
NameTails == {<<"1", "9", ".", "c", "s", "v">>, <<"1", "8", ".", "c", "s", "v">>, <<"1", "9", ".", "t", "x", "t">>, <<"9", ".", "c", "s", "v">>, <<"1", "1", "9", ".", "c", "s", "v">>}

FileNameInputs ==
    {p \o d \o t : p \in NamePrefixes, d \in NameDates, t \in NameTails}

idle ==
    /\ args = NoArgs /\ date = None /\ loc = NoLoc /\ readers = <<>>
    /\ counter = 0 /\ pos = 0 /\ conn = NoConn /\ txn = <<>> /\ table = <<>>
    /\ exitStatus = -1 /\ exitAt = "running" /\ runs = 1 /\ table0 = <<>>
    /\ deleted = FALSE /\ executed = 0 /\ summary = NoSummary /\ prev = NoSummary

InitExtract ==
    /\ idle
    /\ pc = "call"
    /\ fnIn \in FileNameInputs
    /\ fnOut = [kind |-> "none", value |-> None]

call_extract_date_from_filename ==
    /\ pc = "call"
    /\ fnOut' = extract_date_from_filename(fnIn)
    /\ pc' = "called"
    /\ UNCHANGED <<args, date, loc, readers, counter, pos, conn, txn, table,
                   exitStatus, exitAt, runs, table0, deleted, executed, summary,
                   prev, fnIn>>

NextExtract == call_extract_date_from_filename

SpecExtract == InitExtract /\ [][NextExtract]_vars

(***************************************************************************)
(* create_header_col_list on its own                                       *)
(***************************************************************************)
LabelChars == {"/", "-", " ", "a"}

SeqsUpTo(S, n) == UNION {[1..k -> S] : k \in 0..n}

Labels == SeqsUpTo(LabelChars, MaxLabelLen)

Headers == SeqsUpTo(Labels, MaxHeaderLen)

InitHeader ==
    /\ idle
    /\ pc = "call"
    /\ fnIn \in Headers
    /\ fnOut = <<>>

call_create_header_col_list ==
    /\ pc = "call"
    /\ fnOut' = create_header_col_list(fnIn, ExtraCol)
    /\ pc' = "called"
    /\ UNCHANGED <<args, date, loc, readers, counter, pos, conn, txn, table,
                   exitStatus, exitAt, runs, table0, deleted, executed, summary,
                   prev, fnIn>>

NextHeader == call_create_header_col_list

SpecHeader == InitHeader /\ [][NextHeader]_vars

(***************************************************************************)
(* Properties                                                              *)
(***************************************************************************)
IsPrefix(a, b) == Len(a) <= Len(b) /\ SubSeq(b, 1, Len(a)) = a

\* the rows of partition d
Partition(rows, d) == SelectSeq(rows, LAMBDA row : row[Len(row)] = d)

\* the rows without those of partition d
WithoutPartition(rows, d) == SelectSeq(rows, LAMBDA row : row[Len(row)] # d)

\* the first n data rows of the file, each followed by d
Tagged(path, d, n) == [i \in 1..n |-> Append(FileContent(path)[i + 1], d)]

\* the data rows of the file
DataRows(path) == Len(FileContent(path)) - 1

\* C1: when a daily import of a file completes right after a completed daily
\* import of the same file, partition D of the table holds the same rows (and
\* so as many) as after the first of the two.
C1_DailyIdempotent ==
    (/\ pc = "exit"
     /\ summary.completed /\ summary.importtype = S_daily
     /\ prev.completed /\ prev.importtype = S_daily
     /\ lower(prev.sourcefilepath) = lower(summary.sourcefilepath))
    => /\ prev.date = summary.date
       /\ Partition(table, summary.date) = Partition(table0, summary.date)
       /\ Len(Partition(table, summary.date)) = summary.nrows

C1_Witness ==
    /\ pc = "exit"
    /\ summary.completed /\ summary.importtype = S_daily
    /\ prev.completed /\ prev.importtype = S_daily
    /\ lower(prev.sourcefilepath) = lower(summary.sourcefilepath)
    /\ summary.executed = 2
    /\ Len(table) > 2

\* C2: the exit status is 0 exactly when the import succeeded (the process
\* ran to its end, every data row was inserted and no mismatch was
\* reported), and 1 otherwise.
C2_ExitStatus ==
    pc = "exit" =>
        /\ exitStatus \in {0, 1}
        /\ exitStatus = 0 <=> (/\ summary.completed
                               /\ summary.failed = 0
                               /\ summary.executed = summary.nrows)

\* C3: a request without trusted authentication that lacks destuser or
\* destpass does not get past validate_inputs.
C3_CredentialsRequired ==
    (/\ args.trustedconnection # S_yes
     /\ (args.destuser = None \/ args.destpass = None))
    => pc \in {"main", "exit"}

\* the name ends in a valid 8-digit calendar date, "19" and ".csv"
EndsWithDate(name) ==
    /\ Len(name) >= 14
    /\ SubSeq(name, Len(name) - 5, Len(name)) = <<"1", "9", ".", "c", "s", "v">>
    /\ LET d == SubSeq(name, Len(name) - 13, Len(name) - 6)
       IN  /\ isdigit(d)
           /\ IntOf(SubSeq(d, 1, 4)) >= 1
           /\ IntOf(SubSeq(d, 5, 6)) \in 1..12
           /\ IntOf(SubSeq(d, 7, 8)) \in
                  1..DaysInMonth(IntOf(SubSeq(d, 1, 4)), IntOf(SubSeq(d, 5, 6)))

\* that date as YYYY-MM-DD
DateOf(name) ==
    LET d == SubSeq(name, Len(name) - 13, Len(name) - 6)
    IN  SubSeq(d, 1, 4) \o <<"-">> \o SubSeq(d, 5, 6) \o <<"-">> \o SubSeq(d, 7, 8)

\* C4: extract_date_from_filename returns YYYY-MM-DD for every name that ends
\* in a valid 8-digit date, "19" and ".csv", and for every other name ends
\* the process without returning a value (by sys.exit or by an exception).
C4_ExtractDate ==
    pc = "called" =>
        IF EndsWithDate(fnIn)
        THEN fnOut = [kind |-> "return", value |-> DateOf(fnIn)]
        ELSE fnOut.kind # "return"

\* C5: the import returns failed = 0 exactly when an insert was executed for
\* every data row of the file.
C5_FailedIffMismatch ==
    pc = "returned" =>
        (loc.failed = 0 <=> executed = loc.total_recs_in_csv - 1)

\* C6: in a daily or full import write_records_to_db returns the number of
\* data rows of the file, which is the number of rows it submitted.
C6_ReturnsRowCount ==
    (pc = "written" /\ loc.importtype \in {S_daily, S_full})
    => loc.written = Len(readers) /\ loc.written = executed

\* sub occurs in s
Contains(s, sub) ==
    \E i \in 1..(Len(s) - Len(sub) + 1) : SubSeq(s, i, i + Len(sub) - 1) = sub

\* a label without space, hyphen and "//"
Clean(s) == ~Contains(s, <<" ">>) /\ ~Contains(s, <<"-">>) /\ ~Contains(s, <<"/", "/">>)

\* C7: create_header_col_list keeps the length and the order, appends the
\* partition column, leaves no space, hyphen or "//" in a label and leaves a
\* clean label as it is.
C7_Columns ==
    pc = "called" =>
        /\ Len(fnOut) = Len(fnIn) + 1
        /\ fnOut[Len(fnOut)] = ExtraCol
        /\ \A i \in 1..Len(fnIn) :
              /\ Clean(fnOut[i])
              /\ Clean(fnIn[i]) => fnOut[i] = fnIn[i]

\* the committed tables a daily import of the file for date d may leave
DailyTables(path, d) ==
    {table0, WithoutPartition(table0, d)}
        \cup (IF FileExists(path)
              THEN {WithoutPartition(table0, d) \o Tagged(path, d, DataRows(path))}
              ELSE {})

\* C8: in a daily import the delete is committed before the first insert is
\* executed, and whatever the next step is, the committed table is the table
\* the run started with, that table without partition D, or that table
\* without partition D followed by every data row of the file tagged D.
C8_DailyCommits ==
    /\ [](loc.importtype = S_daily /\ executed > 0 => deleted)
    /\ [][loc.importtype = S_daily =>
            table' \in DailyTables(loc.sourcefilepath, loc.extracoldata)]_vars

C8_Witness ==
    /\ pc = "written"
    /\ loc.importtype = S_daily
    /\ deleted
    /\ executed = 2
    /\ Len(Partition(table0, loc.extracoldata)) > 0
    /\ table = WithoutPartition(table0, loc.extracoldata)
                  \o Tagged(loc.sourcefilepath, loc.extracoldata, 2)

\* C9: a full import deletes nothing, so the rows the table had stay; it
\* executes one insert per data row, in file order, of the row's values
\* followed by the date given in extracoldata, and commits them at the end.
C9_FullKeepsAndTags ==
    /\ [](loc.importtype = S_full =>
            /\ ~deleted
            /\ IsPrefix(table0, table)
            /\ pc = "writing" =>
                  txn = Tagged(loc.sourcefilepath, args.extracoldata, pos - 1)
            /\ pc \in {"written", "returned"} =>
                  /\ executed = DataRows(loc.sourcefilepath)
                  /\ table = table0 \o Tagged(loc.sourcefilepath, args.extracoldata,
                                              DataRows(loc.sourcefilepath)))
    /\ [][loc.importtype = S_full => IsPrefix(table0, table')]_vars

C9_Witness ==
    /\ pc = "returned"
    /\ loc.importtype = S_full
    /\ executed = 1
    /\ Len(Partition(table0, args.extracoldata)) > 0
    /\ table = Append(table0, <<"4", "d", args.extracoldata>>)

\* C10: whenever the process is at a database operation, the import type is
\* daily or full and the date is a non-empty, valid YYYY-MM-DD date; and main
\* never ends by reading a result it did not assign.
C10_TypeAndDateChecked ==
    /\ pc \in {"copy", "connected", "probed", "cleared", "loaded", "writing"} =>
          /\ loc.importtype \in {S_daily, S_full}
          /\ loc.extracoldata # <<>>
          /\ strptime(loc.extracoldata)
    /\ exitAt # "main: UnboundLocalError"

====
